---- MODULE Spec2Model ----
(***************************************************************************)
(* A model of the RAG pipeline of backend/rag_system.py: the embedding     *)
(* manager with its provider fallback, the local vector store with its     *)
(* pickle snapshot, the hosted (Pinecone) store, document loading and      *)
(* the two operations of RAGSystem, index_documents and query.             *)
(*                                                                         *)
(* Numbers.  A similarity is held as an integer, the cosine times Scale.   *)
(* The embedding vectors of the model have integer norms that divide       *)
(* Scale, so every cosine of the model is exact.  A vector is held as its  *)
(* dimension and its first two components, every other component being 0.  *)
(***************************************************************************)
EXTENDS Integers, Sequences, FiniteSets, TLC

\* ------------------------------------------------------------------ bounds

\* No index call is made that would take the store past MaxChunks chunks.
MaxChunks == 2
\* The longest list of texts given to one encode call on its own.
MaxTexts == 2
\* The most documents of a directory given to one load_documents call on
\* its own.
MaxDocs == 2
\* The most (chunk, embedding) pairs given to one add_documents call of the
\* hosted store on its own: two full batches and one more pair.
MaxPairs == 101

\* ------------------------------------------------------------ constants

\* Similarities are cosines multiplied by Scale.
Scale == 100
\* config.similarity_threshold, default 0.1, times Scale.
DefaultThreshold == 10
\* The values of SIMILARITY_THRESHOLD: the default, and 0.6, which is a
\* similarity the model produces.
Thresholds == {DefaultThreshold, 60}
\* config.max_results, default 3.
DefaultMaxResults == 3
\* The values of MAX_RESULTS: none, one, and the default.
MaxResultsValues == {0, 1, DefaultMaxResults}
\* The dimension of the OpenAI embeddings and of all-MiniLM-L6-v2.
OpenAIDim == 1536
STDim == 384

Providers == {"openai", "sentence_transformers"}
\* The questions of the model: a text that is also a chunk's content, and
\* one that is not.  The chunk contents are "t1" and "t2".
Questions == {"t1", "qx"}

\* ------------------------------------------------------------- embedding

\* The embedding models are external: each is a fixed function of the text.
\* The first two components of the vector the provider gives a text.
EncodeXY(provider, text) ==
    IF provider = "sentence_transformers"
    THEN CASE text = "t1" -> <<1, 0>>
           [] text = "t2" -> <<3, 4>>
           [] OTHER       -> <<0, 1>>
    ELSE CASE text = "t1" -> <<0, 1>>
           [] text = "t2" -> <<4, 3>>
           [] OTHER       -> <<-1, 0>>

\* EmbeddingManager.embedding_dim of a provider.
EmbeddingDim(provider) == IF provider = "openai" THEN OpenAIDim ELSE STDim

\* One row of the matrix encode returns for one text.
EncodeRow(provider, text) ==
    [dim |-> EmbeddingDim(provider), xy |-> EncodeXY(provider, text)]

\* The matrix for a list of texts: one row per text, in order.
EncodeRows(provider, texts) ==
    [i \in 1..Len(texts) |-> EncodeRow(provider, texts[i])]

\* EmbeddingManager._select_provider and _initialize_embeddings: OpenAI when
\* its key is configured and its client can be imported and initialized.
SelectProvider(keyConfigured, clientOk) ==
    IF keyConfigured /\ clientOk THEN "openai" ELSE "sentence_transformers"

\* A slip: the exception of the OpenAI request is raised, no fallback.
EncodeNoFallback(provider, texts, openaiFails, stFails) ==
    IF provider = "openai"
    THEN [raised |-> openaiFails, provider |-> "openai",
          rows |-> IF openaiFails THEN <<>> ELSE EncodeRows("openai", texts)]
    ELSE [raised |-> stFails, provider |-> "sentence_transformers",
          rows |-> IF stFails THEN <<>>
                   ELSE EncodeRows("sentence_transformers", texts)]

\* EmbeddingManager.encode.  openaiFails: the OpenAI request raises;
\* stFails: the local model cannot be loaded or its encode raises.
\* The provider attribute is switched before the fallback is tried.
Encode(provider, texts, openaiFails, stFails) ==
    IF provider = "openai" /\ ~openaiFails
    THEN [raised |-> FALSE, provider |-> "openai",
          rows |-> EncodeRows("openai", texts)]
    ELSE IF stFails
    THEN [raised |-> TRUE, provider |-> "sentence_transformers", rows |-> <<>>]
    ELSE [raised |-> FALSE, provider |-> "sentence_transformers",
          rows |-> EncodeRows("sentence_transformers", texts)]

\* ------------------------------------------------------ cosine similarity

Dot(u, v) == u[1] * v[1] + u[2] * v[2]

\* The Euclidean norm; the vectors of the model have integer norms.
Norm(u) == CHOOSE n \in 0..Dot(u, u) : n * n = Dot(u, u)

\* sklearn normalizes each row, leaving a zero row as it is.
SafeNorm(u) == IF Norm(u) = 0 THEN 1 ELSE Norm(u)

\* cosine_similarity of two rows of the same dimension, times Scale.
CosineSimilarity(q, e) ==
    (Dot(q.xy, e.xy) * Scale) \div (SafeNorm(q.xy) * SafeNorm(e.xy))

\* ------------------------------------------------------ sequence helpers

RECURSIVE Concat(_)
\* The concatenation of a sequence of sequences (list.extend in a loop).
Concat(ss) == IF ss = <<>> THEN <<>> ELSE Head(ss) \o Concat(Tail(ss))

\* s[::-1]
Reverse(s) == [i \in 1..Len(s) |-> s[Len(s) + 1 - i]]

\* A slip: s[:k], the first k, where the last k are meant.
FirstK(s, k) == IF k >= Len(s) THEN s ELSE SubSeq(s, 1, k)

\* s[-k:] for k >= 0, as Python slices: s[-0:] is s[0:], the whole of s.
LastK(s, k) ==
    IF k = 0 \/ k >= Len(s) THEN s ELSE SubSeq(s, Len(s) - k + 1, Len(s))

\* ------------------------------------------------------ document loading

\* A document is what _chunk_document is called on: a text file, or one page
\* of a PDF (the pages of one PDF share its source name).  texts is what the
\* text splitter returns for its content; an unreadable document has none.
IsPdf(source) == source \in {"b.pdf", "d.pdf"}

Doc(source, texts) == [source |-> source, readable |-> TRUE, texts |-> texts]
Unreadable(source) == [source |-> source, readable |-> FALSE, texts |-> <<>>]

\* The data directories of the model.  A directory lists its text files
\* before its PDF pages, as load_documents reads them.
Dirs ==
    {<<>>,
     <<Unreadable("a.txt")>>,
     <<Doc("a.txt", <<"t1">>)>>,
     <<Doc("b.pdf", <<"t2">>)>>,
     <<Doc("a.txt", <<"t1">>), Doc("b.pdf", <<"t1">>)>>,
     <<Doc("b.pdf", <<"t1">>), Doc("b.pdf", <<"t2">>)>>,
     <<Doc("a.txt", <<"t1">>), Unreadable("b.pdf")>>,
     <<Doc("b.pdf", <<"t1">>), Unreadable("b.pdf")>>}

\* DocumentChunk.  The md5 prefix of the chunk text is held as the text.
Chunk(source, i, text) ==
    [content |-> text, source |-> source, chunk_id |-> <<source, i, text>>]

\* DocumentProcessor._chunk_document: chunk i of the splitter's output,
\* numbered from 0, whitespace-only chunks dropped.
ChunkDocument(doc) ==
    LET keep == SelectSeq([i \in 1..Len(doc.texts) |-> i],
                          LAMBDA i : doc.texts[i] # "")
    IN  [j \in 1..Len(keep) |->
            Chunk(doc.source, keep[j] - 1, doc.texts[keep[j]])]

\* DocumentProcessor.load_documents: an unreadable text file is skipped on
\* its own; the PDFs are loaded by one call inside one try block, so one
\* unparsable PDF drops every PDF page.
LoadDocuments(dir) ==
    LET txts == SelectSeq(dir, LAMBDA d : ~IsPdf(d.source) /\ d.readable)
        pdfs == SelectSeq(dir, LAMBDA d : IsPdf(d.source))
        pdfOk == \A i \in 1..Len(pdfs) : pdfs[i].readable
    IN  Concat([i \in 1..Len(txts) |-> ChunkDocument(txts[i])])
        \o (IF pdfOk
            THEN Concat([i \in 1..Len(pdfs) |-> ChunkDocument(pdfs[i])])
            ELSE <<>>)

\* ------------------------------------------------------ local vector store

\* LocalVectorStore.__init__ before _load_cache: no chunks, embeddings None.
NoEmbeddings == [none |-> TRUE, rows |-> <<>>]
EmptyStore == [chunks |-> <<>>, embeddings |-> NoEmbeddings]

\* The snapshot file: absent, unreadable, or a pickled pair.
NoFile == [state |-> "absent", chunks |-> <<>>, embeddings |-> NoEmbeddings]
CorruptFile == [state |-> "corrupt", chunks |-> <<>>, embeddings |-> NoEmbeddings]
Snapshot(store) ==
    [state |-> "ok", chunks |-> store.chunks, embeddings |-> store.embeddings]

\* LocalVectorStore._load_cache: a missing or unreadable file leaves the
\* store as constructed.
LoadCache(f) ==
    IF f.state = "ok"
    THEN [chunks |-> f.chunks, embeddings |-> f.embeddings]
    ELSE EmptyStore

\* LocalVectorStore._save_cache.  An I/O error is logged, not raised:
\* "torn" is open(.., "wb") truncating the file and pickle.dump failing.
SaveCache(store, f, outcome) ==
    IF outcome = "ok" THEN Snapshot(store) ELSE CorruptFile

\* What goes wrong during one operation: nothing; the OpenAI request; every
\* embedding backend; the write of the snapshot; the Pinecone request.
Faults == {"none", "openai", "embedding", "torn", "request"}
OpenAIFails(fault) == fault \in {"openai", "embedding"}
STFails(fault) == fault = "embedding"
SaveOutcome(fault) == IF fault = "torn" THEN "torn" ELSE "ok"
RequestFails(fault) == fault = "request"
\* The faults that can touch an operation: the OpenAI request is made only
\* while OpenAI is the provider, the snapshot is written only by the local
\* store's add_documents, Pinecone is called only by the hosted store.
IndexFaults(storeKind, prov) ==
    (Faults \ (IF storeKind = "local" THEN {"request"} ELSE {"torn"}))
        \ (IF prov = "openai" THEN {} ELSE {"openai"})
QueryFaults(storeKind, prov) == IndexFaults(storeKind, prov) \ {"torn"}

\* The column count of a matrix; an empty array has none.
MatDim(rows) == IF rows = <<>> THEN 0 ELSE rows[1].dim

\* A slip: add_documents replaces what the store holds with the batch.
AddDocumentsReplacing(store, f, chunks, rows, saveOutcome) ==
    LET s == [chunks |-> chunks,
              embeddings |-> [none |-> FALSE, rows |-> rows]]
    IN  [raised |-> FALSE, store |-> s, file |-> SaveCache(s, f, saveOutcome)]

\* LocalVectorStore.add_documents.  chunks.extend runs first; np.vstack
\* raises ValueError when the row lengths differ, and then neither the
\* matrix nor the file is written.
AddDocuments(store, f, chunks, rows, saveOutcome) ==
    LET extended == store.chunks \o chunks
    IN  IF store.embeddings.none
        THEN LET s == [chunks |-> extended,
                       embeddings |-> [none |-> FALSE, rows |-> rows]]
             IN  [raised |-> FALSE, store |-> s,
                  file |-> SaveCache(s, f, saveOutcome)]
        ELSE IF MatDim(store.embeddings.rows) # MatDim(rows)
        THEN [raised |-> TRUE,
              store |-> [chunks |-> extended, embeddings |-> store.embeddings],
              file |-> f]
        ELSE LET s == [chunks |-> extended,
                       embeddings |-> [none |-> FALSE,
                                       rows |-> store.embeddings.rows \o rows]]
             IN  [raised |-> FALSE, store |-> s,
                  file |-> SaveCache(s, f, saveOutcome)]

\* The similarities of the query to every row.
Similarities(q, rows) == [i \in 1..Len(rows) |-> CosineSimilarity(q, rows[i])]

\* np.argsort(similarities): an ascending order of the indices.  The default
\* sort is not stable, so equal similarities may come in either order.
ArgSorts(sims) ==
    {p \in [1..Len(sims) -> 1..Len(sims)] :
        /\ \A i, j \in 1..Len(sims) : i # j => p[i] # p[j]
        /\ \A i \in 1..Len(sims) - 1 : sims[p[i]] <= sims[p[i + 1]]}

\* A slip: >= where > is meant.
AtLeastThreshold(similarity, threshold) == similarity >= threshold

\* The test that admits a result.
AboveThreshold(similarity, threshold) == similarity > threshold

\* The loop of LocalVectorStore.search over top_indices.
LocalResults(store, sims, top, threshold) ==
    LET kept == SelectSeq(top, LAMBDA idx : AboveThreshold(sims[idx], threshold))
    IN  [j \in 1..Len(kept) |->
            [chunk |-> store.chunks[kept[j]], similarity |-> sims[kept[j]]]]

\* A slip: the [::-1] left out.
TopIndicesAscending(order, k) == LastK(order, k)

\* top_indices = np.argsort(similarities)[-k:][::-1]
TopIndices(order, k) == Reverse(LastK(order, k))

\* The stores and queries on which cosine_similarity raises: the query and
\* the matrix differ in the number of columns.
SearchRaises(store, q) ==
    /\ ~store.embeddings.none
    /\ Len(store.chunks) # 0
    /\ MatDim(store.embeddings.rows) # q.dim

\* LocalVectorStore.search, for one outcome `order` of the argsort.
LocalSearch(store, q, k, threshold, order) ==
    IF store.embeddings.none \/ Len(store.chunks) = 0
    THEN <<>>
    ELSE LocalResults(store, Similarities(q, store.embeddings.rows),
                      TopIndices(order, k), threshold)

\* The outcomes of the argsort of a search.
SearchOrders(store, q) ==
    IF store.embeddings.none \/ Len(store.chunks) = 0 \/ SearchRaises(store, q)
    THEN {<<>>}
    ELSE ArgSorts(Similarities(q, store.embeddings.rows))

\* The indices the loop of search keeps, in result order.
LocalKept(store, q, k, threshold, order) ==
    IF store.embeddings.none \/ Len(store.chunks) = 0
    THEN <<>>
    ELSE LET sims == Similarities(q, store.embeddings.rows)
         IN  SelectSeq(TopIndices(order, k),
                       LAMBDA idx : AboveThreshold(sims[idx], threshold))

\* ----------------------------------------------------- hosted vector store

\* The dimension the remote index was created with.
IndexDim == 384

\* The vector PineconeVectorStore.add_documents builds for one pair.
PineconeVector(chunk, row) ==
    [id |-> chunk.chunk_id, values |-> row,
     text |-> chunk.content, source |-> chunk.source]

\* index.upsert of one batch: a vector replaces the stored vector of its id.
Upsert(index, vectors) ==
    LET ids == {vectors[i].id : i \in 1..Len(vectors)}
        lastOf(id) == CHOOSE i \in 1..Len(vectors) :
                         /\ vectors[i].id = id
                         /\ \A j \in 1..Len(vectors) : vectors[j].id = id => j <= i
    IN  {r \in index : r.id \notin ids} \cup {vectors[lastOf(id)] : id \in ids}

\* PineconeVectorStore.add_documents for at most one batch of 50 vectors.
\* The service refuses vectors of another dimension than the index's, and a
\* request may fail; either way upsert raises and nothing is written.
HostedAddDocuments(index, chunks, rows, requestFails) ==
    LET n == IF Len(chunks) <= Len(rows) THEN Len(chunks) ELSE Len(rows)
        vectors == [i \in 1..n |-> PineconeVector(chunks[i], rows[i])]
    IN  IF n = 0
        THEN [raised |-> FALSE, index |-> index]
        ELSE IF requestFails \/ MatDim(rows) # IndexDim
        THEN [raised |-> TRUE, index |-> index]
        ELSE [raised |-> FALSE, index |-> Upsert(index, vectors)]

\* The rankings index.query may return: every stored vector, by descending
\* cosine score, equal scores in either order.
RemoteOrders(index, q) ==
    IF q.dim # IndexDim
    THEN {<<>>}
    ELSE {p \in [1..Cardinality(index) -> index] :
            /\ \A i, j \in 1..Cardinality(index) : i # j => p[i] # p[j]
            /\ \A i \in 1..Cardinality(index) - 1 :
                  CosineSimilarity(q, p[i].values)
                      >= CosineSimilarity(q, p[i + 1].values)}

\* The matches of index.query(vector, top_k=k): the first k of the ranking.
Matches(ranking, k) ==
    IF k >= Len(ranking) THEN ranking ELSE SubSeq(ranking, 1, k)

\* index.query raises: on a failed request, on a query of another
\* dimension than the index's and on top_k < 1.
HostedSearchRaises(q, k, requestFails) ==
    requestFails \/ q.dim # IndexDim \/ k < 1

\* PineconeVectorStore.search.  It catches what index.query raises and
\* returns the empty list.
HostedSearch(q, k, threshold, ranking, requestFails) ==
    IF HostedSearchRaises(q, k, requestFails)
    THEN <<>>
    ELSE LET m == Matches(ranking, k)
             score(i) == CosineSimilarity(q, m[i].values)
             kept == SelectSeq([i \in 1..Len(m) |-> i],
                               LAMBDA i : AboveThreshold(score(i), threshold))
         IN  [j \in 1..Len(kept) |->
                [chunk |-> [content |-> m[kept[j]].text,
                            source |-> m[kept[j]].source,
                            chunk_id |-> m[kept[j]].id],
                 similarity |-> score(kept[j])]]

\* ------------------------------------------------------------- RAGSystem

VARIABLES
    provider,     \* EmbeddingManager.provider
    kind,         \* the class of RAGSystem.vector_store: "local" or "hosted"
    store,        \* LocalVectorStore.chunks and .embeddings
    file,         \* cache/vector_store.pkl
    remote,       \* the vectors held by the Pinecone index
    maxResults,   \* config.max_results
    threshold,    \* config.similarity_threshold, times Scale
    last,         \* the last operation: its arguments, calls and outcome
    app,          \* the Flask application: its environment and whether it serves
    http,         \* the last HTTP request and its response
    call,         \* one call of a component on its own: arguments and result
    threads       \* the add_documents calls in progress, one per request thread

vars == <<provider, kind, store, file, remote, maxResults, threshold, last,
          app, http, call, threads>>

\* The RAG system used as a library (rag_system.py run as a script): no
\* Flask application, no request, no call in progress.
NoApp == [phase |-> "none"]
NoRequest == [route |-> "none", status |-> 0]
NoCall == [fn |-> "none"]
NoThreads == <<>>

\* The strings query returns.
NoContextResponse == "I don't have specific information about that topic"
Apology == "I apologize, but I couldn't generate a response"
ErrorResponse == "I encountered an error while processing your question"
Answer == "answer"
QueryStrings == {NoContextResponse, Apology, ErrorResponse, Answer, ""}

\* What the generator does with a prompt: it returns text, text that is all
\* whitespace, or no text, or it raises.
GeneratorOutcomes == {"text", "blank", "empty", "raise"}

Idle ==
    [op |-> "init", force |-> FALSE, dirEmpty |-> FALSE, skipped |-> FALSE,
     loaded |-> FALSE, encoded |-> FALSE, added |-> FALSE,
     addReturned |-> FALSE, outcome |-> "return", value |-> "",
     q |-> EncodeRow("sentence_transformers", "qx"), searched |-> FALSE,
     results |-> <<>>, kept |-> <<>>, generated |-> FALSE,
     raisedAt |-> "none", detail |-> "", idsHeld |-> FALSE,
     searchFailed |-> FALSE]

\* RAGSystem._initialize_vector_store: the hosted store when it is
\* configured and its constructor does not raise, else the local store.
InitializeVectorStore(usePinecone, pineconeOk) ==
    IF usePinecone /\ pineconeOk THEN "hosted" ELSE "local"

\* The ids of the vectors a remote index holds.
Ids(index) == {r.id : r \in index}

\* The ids under which the hosted store upserts the chunks of a directory.
ChunkIds(chunks) == {chunks[i].chunk_id : i \in 1..Len(chunks)}

\* A slip: the test asks for a store that holds vectors, of either class.
AlreadyIndexedEitherStore(force, storeKind, s) ==
    ~force /\ (Len(s.chunks) > 0 \/ (storeKind = "hosted" /\ remote # {}))

\* A slip: the force flag read the wrong way round.
AlreadyIndexedInverted(force, storeKind, s) ==
    force /\ storeKind = "local" /\ Len(s.chunks) > 0

\* The test of index_documents for "already indexed".
AlreadyIndexed(force, storeKind, s) ==
    ~force /\ storeKind = "local" /\ Len(s.chunks) > 0

\* A slip: "if chunks is None", which an empty list does not satisfy.
NoDocumentsIsNone(chunks) == FALSE /\ chunks = <<>>

\* "if not chunks" in index_documents.
NoDocuments(chunks) == chunks = <<>>

\* [chunk.content for chunk in chunks]
ContentsOf(chunks) == [i \in 1..Len(chunks) |-> chunks[i].content]

\* RAGSystem.index_documents, as the new values of the state and the record
\* of the call.  An exception of the loader's caller, of encode or of
\* add_documents propagates (outcome "raise").  idsHeld: the store is the
\* hosted one and the remote index held every chunk id of the directory
\* when the call began, as it does when the directory was indexed before.
IndexRun(force, dir, fault) ==
    LET openaiFails == OpenAIFails(fault)
        stFails == STFails(fault)
        saveOutcome == SaveOutcome(fault)
        requestFails == RequestFails(fault)
        base == [Idle EXCEPT !.op = "index", !.force = force,
                             !.dirEmpty = (LoadDocuments(dir) = <<>>),
                             !.idsHeld = (/\ kind = "hosted"
                                          /\ ChunkIds(LoadDocuments(dir))
                                                 \subseteq Ids(remote))]
        same == [provider |-> provider, store |-> store, file |-> file,
                 remote |-> remote, last |-> base]
        chunks == LoadDocuments(dir)
        enc == Encode(provider, ContentsOf(chunks), openaiFails, stFails)
        add == AddDocuments(store, file, chunks, enc.rows, saveOutcome)
        up == HostedAddDocuments(remote, chunks, enc.rows, requestFails)
    IN  IF AlreadyIndexed(force, kind, store)
        THEN [same EXCEPT !.last = [base EXCEPT !.skipped = TRUE]]
        ELSE IF NoDocuments(chunks)
        THEN [same EXCEPT !.last = [base EXCEPT !.loaded = TRUE,
                                        !.outcome = "raise",
                                        !.raisedAt = "load"]]
        ELSE IF enc.raised
        THEN [same EXCEPT !.provider = enc.provider,
                          !.last = [base EXCEPT !.loaded = TRUE,
                                        !.encoded = TRUE,
                                        !.outcome = "raise",
                                        !.raisedAt = "encode"]]
        ELSE IF kind = "local"
        THEN [same EXCEPT !.provider = enc.provider,
                          !.store = add.store,
                          !.file = add.file,
                          !.last = [base EXCEPT !.loaded = TRUE,
                                        !.encoded = TRUE, !.added = TRUE,
                                        !.addReturned = ~add.raised,
                                        !.outcome = IF add.raised THEN "raise"
                                                    ELSE "return",
                                        !.raisedAt = IF add.raised THEN "add"
                                                     ELSE "none"]]
        ELSE [same EXCEPT !.provider = enc.provider,
                          !.remote = up.index,
                          !.last = [base EXCEPT !.loaded = TRUE,
                                        !.encoded = TRUE, !.added = TRUE,
                                        !.addReturned = ~up.raised,
                                        !.outcome = IF up.raised THEN "raise"
                                                    ELSE "return",
                                        !.raisedAt = IF up.raised THEN "add"
                                                     ELSE "none"]]

\* A slip: "if results is None", which an empty list does not satisfy.
NoResultsIsNone(results) == FALSE /\ results = <<>>

\* "if not results" in query.
NoResults(results) == results = <<>>

\* The body of the try block of RAGSystem.query.  order and ranking are the
\* outcomes of the local argsort and of the remote ranking.  searchFailed:
\* an exception was raised inside the store's search, whether search let
\* it out (the local store) or not (the hosted store).
QueryTry(question, fault, order, ranking, gen) ==
    LET openaiFails == OpenAIFails(fault)
        stFails == STFails(fault)
        requestFails == RequestFails(fault)
        enc == Encode(provider, <<question>>, openaiFails, stFails)
        q == enc.rows[1]
        base == [Idle EXCEPT !.op = "query", !.encoded = TRUE]
        results == IF kind = "local"
                   THEN LocalSearch(store, q, maxResults, threshold, order)
                   ELSE HostedSearch(q, maxResults, threshold, ranking,
                                     requestFails)
        kept == IF kind = "local"
                THEN LocalKept(store, q, maxResults, threshold, order)
                ELSE <<>>
        found == [base EXCEPT !.q = q, !.searched = TRUE,
                              !.results = results, !.kept = kept,
                              !.searchFailed =
                                  (/\ kind = "hosted"
                                   /\ HostedSearchRaises(q, maxResults,
                                                         requestFails))]
    IN  IF enc.raised
        THEN [provider |-> enc.provider,
              last |-> [base EXCEPT !.outcome = "raise",
                                    !.raisedAt = "encode"]]
        ELSE IF kind = "local" /\ SearchRaises(store, q)
        THEN [provider |-> enc.provider,
              last |-> [base EXCEPT !.q = q, !.outcome = "raise",
                                    !.raisedAt = "search",
                                    !.searchFailed = TRUE]]
        ELSE IF NoResults(results)
        THEN [provider |-> enc.provider,
              last |-> [found EXCEPT !.value = NoContextResponse]]
        ELSE [provider |-> enc.provider,
              last |-> [found EXCEPT
                          !.generated = TRUE,
                          !.outcome = IF gen = "raise" THEN "raise"
                                      ELSE "return",
                          !.raisedAt = IF gen = "raise" THEN "generate"
                                       ELSE "none",
                          !.value = CASE gen = "text"  -> Answer
                                      [] gen = "blank" -> ""
                                      [] gen = "empty" -> Apology
                                      [] OTHER         -> ""]]

\* A slip: the exception is logged and raised again.
Reraise(r) == r

\* str(e) of the exception raised at one place of query.
ExceptionText(raisedAt) ==
    CASE raisedAt = "encode"   -> "Connection error."
      [] raisedAt = "search"   -> "Incompatible dimension for X and Y matrices"
      [] raisedAt = "generate" -> "429 Resource has been exhausted"
      [] OTHER                 -> ""

\* "except Exception as e" of query: the exception becomes the returned
\* string, ErrorResponse followed by str(e) (held in detail).
CatchAll(r) ==
    IF r.last.outcome = "raise"
    THEN [r EXCEPT !.last.outcome = "return", !.last.value = ErrorResponse,
                   !.last.detail = ExceptionText(r.last.raisedAt)]
    ELSE r

\* --------------------------------------------------------------- actions

\* RAGSystem.__init__ with no snapshot file and an empty remote index.
Init ==
    /\ \E keyConfigured, clientOk \in BOOLEAN :
          provider = SelectProvider(keyConfigured, clientOk)
    /\ \E usePinecone, pineconeOk \in BOOLEAN :
          kind = InitializeVectorStore(usePinecone, pineconeOk)
    /\ file = NoFile
    /\ store = LoadCache(file)
    /\ remote = {}
    /\ maxResults \in MaxResultsValues
    /\ threshold \in Thresholds
    /\ last = Idle
    /\ app = NoApp
    /\ http = NoRequest
    /\ call = NoCall
    /\ threads = NoThreads

\* The model stops adding at MaxChunks stored chunks or vectors.
WithinBounds(r) ==
    /\ Len(r.store.chunks) <= MaxChunks
    /\ Cardinality(r.remote) <= MaxChunks

\* index_documents reads the directory through load_documents alone: one
\* directory stands for all that load the same chunks.
DistinctDirs ==
    {CHOOSE d \in Dirs : LoadDocuments(d) = b : b \in {LoadDocuments(d) : d \in Dirs}}

\* One call of index_documents, on whatever the data directory holds.  A
\* call that returns at the "already indexed" test reads neither the
\* directory's content nor any backend.
IndexDocuments ==
    \E force \in BOOLEAN :
    \E dir \in IF AlreadyIndexed(force, kind, store)
               THEN {<<>>, <<Doc("a.txt", <<"t1">>)>>} ELSE DistinctDirs :
    \E fault \in IF AlreadyIndexed(force, kind, store)
                 THEN {"none"} ELSE IndexFaults(kind, provider) :
    \E r \in {IndexRun(force, dir, fault)} :
        /\ WithinBounds(r)
        /\ provider' = r.provider
        /\ store' = r.store
        /\ file' = r.file
        /\ remote' = r.remote
        /\ last' = r.last
        /\ UNCHANGED <<kind, maxResults, threshold, app, http, call, threads>>

\* A slip: the snapshot file is read again before each search.
StoreReloaded(s, f) == IF f = NoFile THEN s ELSE LoadCache(f)

\* The local store after query: search reads self.chunks and
\* self.embeddings and assigns neither, and nothing but __init__ calls
\* _load_cache.
StoreAfterQuery(s, f) == s

\* What one call of query can come to under one fault: one outcome for
\* every order of the argsort (or remote ranking) and, when the search
\* returns results, every behaviour of the generator.
QueryOutcomesUnder(question, fault) ==
    LET enc == Encode(provider, <<question>>, OpenAIFails(fault),
                      STFails(fault))
        orders == IF enc.raised \/ kind # "local" THEN {<<>>}
                  ELSE SearchOrders(store, enc.rows[1])
        rankings == IF enc.raised \/ kind # "hosted" THEN {<<>>}
                    ELSE RemoteOrders(remote, enc.rows[1])
        gens(t) == IF t.last.generated THEN GeneratorOutcomes ELSE {"text"}
    IN  UNION {{CatchAll(QueryTry(question, fault, ord[1], ord[2], gen)) :
                   gen \in gens(QueryTry(question, fault, ord[1], ord[2],
                                         "text"))} :
               ord \in orders \X rankings}

\* What one call of query can come to.
QueryOutcomes(question) ==
    UNION {QueryOutcomesUnder(question, fault) :
              fault \in QueryFaults(kind, provider)}

\* One call of query.
Query ==
    \E question \in Questions :
    \E r \in QueryOutcomes(question) :
        /\ provider' = r.provider
        /\ last' = r.last
        /\ store' = StoreAfterQuery(store, file)
        /\ UNCHANGED <<kind, file, remote, maxResults, threshold, app, http,
                       call, threads>>

\* The process is started again with the same store variant, max_results
\* and threshold: the embedding provider is selected anew and a local store
\* reads the snapshot file.
Restart ==
    /\ \E keyConfigured, clientOk \in BOOLEAN :
          provider' = SelectProvider(keyConfigured, clientOk)
    /\ store' = IF kind = "local" THEN LoadCache(file) ELSE store
    /\ last' = [Idle EXCEPT !.op = "restart"]
    /\ UNCHANGED <<kind, file, remote, maxResults, threshold, app, http,
                   call, threads>>

Next == IndexDocuments \/ Query \/ Restart

Spec == Init /\ [][Next]_vars

\* ------------------------------------------------------------ HTTP layer

\* The longest message process_query accepts, in characters.
MaxMessageLen == 2000

\* A string sent as the message: the question it asks, the number of its
\* characters that are not surrounding whitespace, and the number that are.
Message(text, len, pad) == [text |-> text, len |-> len, pad |-> pad]
\* The value of a field that is absent: get('message', '') gives ''.
NoMessage == Message("", 0, 0)

\* str.strip() and len()
Strip(m) == [m EXCEPT !.pad = 0]
Length(m) == m.len + m.pad

\* The messages of the model: empty, whitespace only, short, of the longest
\* accepted length inside whitespace, and one character too long.
Messages ==
    {NoMessage, Message("", 0, 1), Message("t1", 1, 0), Message("qx", 1, 1),
     Message("t1", MaxMessageLen, 1), Message("t1", MaxMessageLen + 1, 0)}

\* The body of a POST /llmtrigger.  type: a form or JSON (request.is_json);
\* shape: what the JSON text parses to; field: what its "message" holds.
Body(type, shape, field, message) ==
    [type |-> type, shape |-> shape, field |-> field, message |-> message]

Bodies ==
    {Body("form", "form", "absent", NoMessage),
     Body("form", "form", "string", Message("", 0, 1)),
     Body("form", "form", "string", Message("t1", 1, 0))}
    \cup {Body("json", "object", "absent", NoMessage)}
    \cup {Body("json", "object", "string", m) : m \in Messages}
    \cup {Body("json", "object", f, NoMessage) : f \in {"number", "null"}}
    \cup {Body("json", sh, "absent", NoMessage) :
             sh \in {"array", "null", "malformed"}}

\* Lines 200-204 of process_query: the message of the request, stripped.
\* get_json raises BadRequest on text that is not JSON; .get raises
\* AttributeError on a value that is not an object, and .strip on a message
\* that is not a string.
ReadMessage(body) ==
    IF body.type = "json" /\ body.shape = "malformed"
    THEN [raised |-> TRUE, exception |-> "BadRequest", query |-> NoMessage]
    ELSE IF body.type = "json" /\ body.shape # "object"
    THEN [raised |-> TRUE, exception |-> "AttributeError", query |-> NoMessage]
    ELSE IF body.field \in {"number", "null"}
    THEN [raised |-> TRUE, exception |-> "AttributeError", query |-> NoMessage]
    ELSE [raised |-> FALSE, exception |-> "none",
          query |-> Strip(IF body.field = "absent" THEN NoMessage
                          ELSE body.message)]

\* The strings of the responses.
NoMessageError == "No message provided"
TooLongError == "Message too long"
InternalError == "An internal error occurred. Please try again."
InternalApology == "I apologize, but I encountered an error while processing your request. Please try again."
EmptyApology == "I apologize, but I couldn't generate a response. Please try again."

\* A response: the status, the error and message fields of the JSON body
\* ("" for a field that is absent), the exception text the body carries,
\* and whether the handler called the RAG system.
Response(route, body, status, error, message, detail, ran) ==
    [route |-> route, body |-> body, status |-> status, error |-> error,
     message |-> message, detail |-> detail, ran |-> ran]

\* "if len(query) > 2000"
TooLong(query) == Length(query) > MaxMessageLen

\* process_query up to the call of the RAG system: the response of a request
\* that is answered without it, or "run" with the query to process.
Validate(body) ==
    LET read == ReadMessage(body)
    IN  IF read.raised
        THEN [run |-> FALSE, query |-> NoMessage,
              response |-> Response("llmtrigger", body, 500, InternalError,
                                    InternalApology, "", FALSE)]
        ELSE IF Length(read.query) = 0
        THEN [run |-> FALSE, query |-> NoMessage,
              response |-> Response("llmtrigger", body, 400, NoMessageError,
                                    "", "", FALSE)]
        ELSE IF TooLong(read.query)
        THEN [run |-> FALSE, query |-> NoMessage,
              response |-> Response("llmtrigger", body, 400, TooLongError,
                                    "", "", FALSE)]
        ELSE [run |-> TRUE, query |-> read.query,
              response |-> Response("llmtrigger", body, 0, "", "", "", FALSE)]

\* process_query after rag_system.augment_prompt returned the string of r:
\* an empty string is replaced, and the answer is sent with status 200.
Answered(body, r) ==
    Response("llmtrigger", body, 200, "",
             IF r.last.value = "" THEN EmptyApology ELSE r.last.value,
             r.last.detail, TRUE)

\* --------------------------------------------------------------- startup

\* The environment of the process: the variables Config reads, the data
\* directory, and which packages and services are there.  pinecone: the
\* service accepts the key and has the index ("ok"), lacks the index, refuses
\* the key, goes away after the configuration was validated ("lost"), or
\* its client package is not installed.
PineconeStates == {"ok", "index_missing", "bad_credential", "lost", "not_installed"}

Envs ==
    [geminiKey : BOOLEAN, dataDirExists : BOOLEAN, dir : Dirs,
     usePineconeVar : {"true", "false", "unset"}, pineconeKey : BOOLEAN,
     pinecone : PineconeStates, openaiKey : BOOLEAN, openaiOk : BOOLEAN,
     stOk : BOOLEAN, llmOk : BOOLEAN]

\* Config.use_pinecone: USE_PINECONE is "true", or it is not set and
\* PINECONE_API_KEY is.
UsePinecone(env) ==
    \/ env.usePineconeVar = "true"
    \/ env.usePineconeVar = "unset" /\ env.pineconeKey

\* Config.__post_init__ creates a data directory that is missing: the
\* directory as validate_config and the loader find it.
DataDir(env) == IF env.dataDirExists THEN env.dir ELSE <<>>

\* The Pinecone part of validate_config: the issues it finds, and
\* use_pinecone as it leaves it (a missing pinecone package switches it off).
ValidatePinecone(env) ==
    [issues |->
        IF ~UsePinecone(env) THEN {}
        ELSE IF ~env.pineconeKey THEN {"pinecone_key"}
        ELSE IF env.pinecone = "index_missing" THEN {"pinecone_index"}
        ELSE IF env.pinecone = "bad_credential" THEN {"pinecone_error"}
        ELSE {},
     usePinecone |->
        UsePinecone(env)
        /\ ~(env.pineconeKey /\ env.pinecone = "not_installed")]

\* A slip: the test for data files left out.
ValidateConfigNoDataCheck(env) ==
    [issues |-> (IF env.geminiKey THEN {} ELSE {"gemini"})
                \cup ValidatePinecone(env).issues,
     usePinecone |-> ValidatePinecone(env).usePinecone]

\* ConfigManager.validate_config.
ValidateConfig(env) ==
    [issues |-> (IF env.geminiKey THEN {} ELSE {"gemini"})
                \cup (IF DataDir(env) = <<>> THEN {"data"} ELSE {})
                \cup ValidatePinecone(env).issues,
     usePinecone |-> ValidatePinecone(env).usePinecone]

\* The issues that come from the hosted service: the index is missing, or
\* the request to list the indexes failed.
HostedIssues == {"pinecone_index", "pinecone_error"}

\* The application before create_app, and what create_app makes of it.
\* dir: the data directory, until it has been indexed; hostedFailed: the
\* hosted store was selected and could not be used; indexRaised: the
\* index_documents call of AggieeRag.__init__ raised.
AppDown ==
    [phase |-> "down", gemini |-> FALSE, dataFiles |-> FALSE, dir |-> <<>>,
     issues |-> {}, hostedFailed |-> FALSE, indexRaised |-> FALSE]

\* The process before create_app runs: no RAGSystem, no snapshot file, an
\* empty remote index, the configuration at its defaults.
HttpInit ==
    /\ provider = "sentence_transformers"
    /\ kind = "local"
    /\ store = EmptyStore
    /\ file = NoFile
    /\ remote = {}
    /\ maxResults = DefaultMaxResults
    /\ threshold = DefaultThreshold
    /\ last = Idle
    /\ app = AppDown
    /\ http = NoRequest
    /\ call = NoCall
    /\ threads = NoThreads

\* create_app up to the construction of RAGSystem: validate_config, then
\* EmbeddingManager, the vector store and the generator.  A configuration
\* issue raises RuntimeError; a failing constructor raises too.
CreateApp ==
    /\ app.phase = "down"
    /\ \E env \in Envs :
        \E v \in {ValidateConfig(env)} :
        \E prov \in {SelectProvider(env.openaiKey, env.openaiOk)} :
        \E storeKind \in {InitializeVectorStore(v.usePinecone,
                                                env.pinecone = "ok")} :
        LET made == [phase |-> "constructed", gemini |-> env.geminiKey,
                     dataFiles |-> DataDir(env) # <<>>, dir |-> DataDir(env),
                     issues |-> v.issues,
                     hostedFailed |-> UsePinecone(env) /\ storeKind = "local",
                     indexRaised |-> FALSE]
            constructed == /\ v.issues = {}
                           /\ (prov = "sentence_transformers" => env.stOk)
                           /\ env.llmOk
        IN  IF constructed
            THEN /\ app' = made
                 /\ provider' = prov
                 /\ kind' = storeKind
                 /\ store' = IF storeKind = "local" THEN LoadCache(file)
                              ELSE EmptyStore
                 /\ last' = Idle
                 /\ UNCHANGED <<file, remote, maxResults, threshold, http,
                                call, threads>>
            ELSE /\ app' = [made EXCEPT !.phase = "failed"]
                 /\ UNCHANGED <<provider, kind, store, file, remote,
                                maxResults, threshold, last, http, call,
                                threads>>

\* A slip: the exception of index_documents is logged and raised again.
AfterAutoIndexReraise(outcome) ==
    IF outcome = "raise" THEN "failed" ELSE "serving"

\* "except Exception" around the index_documents call of
\* AggieeRag.__init__: whatever the call did, construction goes on.
AfterAutoIndex(outcome) == "serving"

\* The rest of create_app: AggieeRag.__init__ indexes the data directory
\* (unforced) and swallows every exception of it, and the routes are
\* registered.
AutoIndex ==
    /\ app.phase = "constructed"
    /\ \E fault \in IF AlreadyIndexed(FALSE, kind, store)
                     THEN {"none"} ELSE IndexFaults(kind, provider) :
       \E r \in {IndexRun(FALSE, app.dir, fault)} :
          /\ provider' = r.provider
          /\ store' = r.store
          /\ file' = r.file
          /\ remote' = r.remote
          /\ last' = [r.last EXCEPT !.outcome = "return"]
          /\ app' = [app EXCEPT !.phase = AfterAutoIndex(r.last.outcome),
                                 !.dir = <<>>,
                                 !.indexRaised = (r.last.outcome = "raise")]
          /\ UNCHANGED <<kind, maxResults, threshold, http, call, threads>>

\* POST /llmtrigger: process_query, with the call of query it makes.
LlmTrigger ==
    /\ app.phase = "serving"
    /\ \E body \in Bodies :
       \E v \in {Validate(body)} :
          IF v.run
          THEN \E r \in QueryOutcomes(v.query.text) :
                  /\ provider' = r.provider
                  /\ last' = r.last
                  /\ http' = Answered(body, r)
                  /\ store' = StoreAfterQuery(store, file)
                  /\ UNCHANGED <<kind, file, remote, maxResults, threshold,
                                 app, call, threads>>
          ELSE /\ http' = v.response
               /\ UNCHANGED <<provider, kind, store, file, remote,
                              maxResults, threshold, last, app, call,
                              threads>>

\* The document count health_check and get_stats report: the length of the
\* local chunk list, or total_vector_count of the remote index, or a fixed
\* string when describe_index_stats raises.
DocCount(storeKind, s, index, statsOk) ==
    IF storeKind = "local" THEN [known |-> TRUE, count |-> Len(s.chunks)]
    ELSE IF statsOk THEN [known |-> TRUE, count |-> Cardinality(index)]
    ELSE [known |-> FALSE, count |-> 0]

\* The response of a GET route: the status, the type of the vector store
\* and the document count of the JSON body.
Status(route, storeType, documents) ==
    [route |-> route, status |-> 200, vector_store |-> storeType,
     documents |-> documents, ran |-> FALSE]

\* "Pinecone" if hasattr(vector_store, 'pc') else "Local"
StoreType(storeKind) == IF storeKind = "hosted" THEN "Pinecone" ELSE "Local"

\* GET /health: health_check.
Health ==
    /\ app.phase = "serving"
    /\ \E statsOk \in IF kind = "hosted" THEN BOOLEAN ELSE {TRUE} :
          http' = Status("health", StoreType(kind),
                         DocCount(kind, store, remote, statsOk))
    /\ UNCHANGED <<provider, kind, store, file, remote, maxResults,
                   threshold, last, app, call, threads>>

\* GET /api/stats: get_stats.
Stats ==
    /\ app.phase = "serving"
    /\ \E statsOk \in IF kind = "hosted" THEN BOOLEAN ELSE {TRUE} :
          http' = Status("stats", StoreType(kind),
                         DocCount(kind, store, remote, statsOk))
    /\ UNCHANGED <<provider, kind, store, file, remote, maxResults,
                   threshold, last, app, call, threads>>

\* GET /api/test: test_endpoint, a fixed body.
Test ==
    /\ app.phase = "serving"
    /\ http' = [route |-> "test", status |-> 200, ran |-> FALSE]
    /\ UNCHANGED <<provider, kind, store, file, remote, maxResults,
                   threshold, last, app, call, threads>>

HttpNext == CreateApp \/ AutoIndex \/ LlmTrigger \/ Health \/ Stats \/ Test

HttpSpec == HttpInit /\ [][HttpNext]_vars

\* ------------------------------------------------ components on their own

RECURSIVE SeqsOf(_, _)
\* The sequences over S of length at most n.
SeqsOf(S, n) ==
    IF n = 0 THEN {<<>>}
    ELSE LET shorter == SeqsOf(S, n - 1)
         IN  shorter \cup {Append(q, x) : q \in shorter, x \in S}

\* The lists of texts given to encode.
TextLists == SeqsOf({"t1", "t2", "qx"}, MaxTexts)

\* The documents a directory can hold: two text files and the pages of two
\* PDFs, each readable or not.
Documents ==
    {Doc("a.txt", <<"t1">>), Doc("c.txt", <<"t2">>), Doc("b.pdf", <<"t1">>),
     Doc("d.pdf", <<"t2">>)}
    \cup {Unreadable(f) : f \in {"a.txt", "c.txt", "b.pdf", "d.pdf"}}

\* The directories given to load_documents: text files before PDF pages.
Directories ==
    {d \in SeqsOf(Documents, MaxDocs) :
        \A i, j \in 1..Len(d) :
            (i < j /\ IsPdf(d[i].source)) => IsPdf(d[j].source)}

\* encode, EmbeddingManager's constructor or load_documents is about to be
\* called on arguments of the bounded sets; no RAGSystem has been built.
ComponentInit ==
    /\ provider = "sentence_transformers"
    /\ kind = "local"
    /\ store = EmptyStore
    /\ file = NoFile
    /\ remote = {}
    /\ maxResults = DefaultMaxResults
    /\ threshold = DefaultThreshold
    /\ last = Idle
    /\ app = NoApp
    /\ http = NoRequest
    /\ threads = NoThreads
    /\ \/ \E p \in Providers, texts \in TextLists, of, sf \in BOOLEAN :
             call = [fn |-> "encode", done |-> FALSE, provider |-> p,
                     texts |-> texts, openaiFails |-> of, stFails |-> sf,
                     dir |-> <<>>, raised |-> FALSE, rows |-> <<>>,
                     chunks |-> <<>>]
       \/ \E key, importOk, initOk, stOk \in BOOLEAN :
             call = [fn |-> "construct", done |-> FALSE,
                     keyConfigured |-> key, importOk |-> importOk,
                     initOk |-> initOk, stOk |-> stOk, raised |-> FALSE,
                     provider |-> "none", dim |-> 0]
       \/ \E dir \in Directories :
             call = [fn |-> "load", done |-> FALSE,
                     provider |-> "sentence_transformers", texts |-> <<>>,
                     openaiFails |-> FALSE, stFails |-> FALSE,
                     dir |-> dir, raised |-> FALSE, rows |-> <<>>,
                     chunks |-> <<>>]

\* A slip: embedding_dim is set to OpenAI's before the client is built and
\* is not set again by the fallback.
InitializeEmbeddingsKeepsDim(selected, importOk, initOk, stOk) ==
    IF selected = "openai" /\ importOk /\ initOk
    THEN [raised |-> FALSE, provider |-> "openai", dim |-> OpenAIDim]
    ELSE IF stOk
    THEN [raised |-> FALSE, provider |-> "sentence_transformers",
          dim |-> IF selected = "openai" THEN OpenAIDim ELSE STDim]
    ELSE [raised |-> TRUE, provider |-> "sentence_transformers", dim |-> 0]

\* EmbeddingManager._initialize_embeddings on the provider _select_provider
\* chose.  importOk: the openai package can be imported; initOk:
\* openai.OpenAI(api_key=..) returns; stOk: the SentenceTransformers model
\* can be loaded.  A failure of OpenAI falls back to the local model; a
\* failure of the local model is raised.
InitializeEmbeddings(selected, importOk, initOk, stOk) ==
    IF selected = "openai" /\ importOk /\ initOk
    THEN [raised |-> FALSE, provider |-> "openai", dim |-> OpenAIDim]
    ELSE IF stOk
    THEN [raised |-> FALSE, provider |-> "sentence_transformers",
          dim |-> STDim]
    ELSE [raised |-> TRUE, provider |-> "sentence_transformers", dim |-> 0]

\* EmbeddingManager.__init__ runs: _select_provider, then
\* _initialize_embeddings.
ConstructCall ==
    /\ call.fn = "construct" /\ ~call.done
    /\ \E r \in {InitializeEmbeddings(
                     SelectProvider(call.keyConfigured, call.importOk),
                     call.importOk, call.initOk, call.stOk)} :
          call' = [call EXCEPT !.done = TRUE, !.raised = r.raised,
                               !.provider = r.provider, !.dim = r.dim]
    /\ UNCHANGED <<provider, kind, store, file, remote, maxResults,
                   threshold, last, app, http, threads>>

\* EmbeddingManager.encode runs; provider becomes the provider it leaves.
EncodeCall ==
    /\ call.fn = "encode" /\ ~call.done
    /\ \E r \in {Encode(call.provider, call.texts, call.openaiFails,
                         call.stFails)} :
          call' = [call EXCEPT !.done = TRUE, !.raised = r.raised,
                               !.rows = r.rows, !.provider = r.provider]
    /\ UNCHANGED <<provider, kind, store, file, remote, maxResults,
                   threshold, last, app, http, threads>>

\* DocumentProcessor.load_documents runs.
LoadCall ==
    /\ call.fn = "load" /\ ~call.done
    /\ call' = [call EXCEPT !.done = TRUE, !.chunks = LoadDocuments(call.dir)]
    /\ UNCHANGED <<provider, kind, store, file, remote, maxResults,
                   threshold, last, app, http, threads>>

ComponentNext == EncodeCall \/ LoadCall \/ ConstructCall

ComponentSpec == ComponentInit /\ [][ComponentNext]_vars

\* ------------------------------------------------- the batched upsert loop

\* PineconeVectorStore.add_documents on its own, step by step: the list of
\* vectors is built from zip(chunks, embeddings), then one iteration of the
\* loop per step.  Pair k of the zip is written k.

\* batch_size
BatchSize == 50

\* A slip: the end of the slice taken as inclusive.
SliceInclusive(v, a, b) ==
    SubSeq(v, a + 1, IF b + 1 < Len(v) THEN b + 1 ELSE Len(v))

\* The Python slice v[a:b] for 0 <= a <= b.
Slice(v, a, b) == SubSeq(v, a + 1, IF b < Len(v) THEN b ELSE Len(v))

\* add_documents is about to be called with n chunks and n embeddings.
UpsertInit ==
    /\ provider = "sentence_transformers"
    /\ kind = "hosted"
    /\ store = EmptyStore
    /\ file = NoFile
    /\ remote = {}
    /\ maxResults = DefaultMaxResults
    /\ threshold = DefaultThreshold
    /\ last = Idle
    /\ app = NoApp
    /\ http = NoRequest
    /\ threads = NoThreads
    /\ \E n \in 0..MaxPairs :
          call = [fn |-> "upsert", pc |-> "build", n |-> n, vectors |-> <<>>,
                  i |-> 0, upserts |-> <<>>]

\* The first loop: one vector per pair of zip(chunks, embeddings), in order.
BuildVectors ==
    /\ call.fn = "upsert" /\ call.pc = "build"
    /\ call' = [call EXCEPT !.pc = "loop",
                             !.vectors = [k \in 1..call.n |-> k]]
    /\ UNCHANGED <<provider, kind, store, file, remote, maxResults,
                   threshold, last, app, http, threads>>

\* One iteration of "for i in range(0, len(vectors), batch_size)": the
\* batch is upserted, or index.upsert raises and add_documents with it.
UpsertBatch ==
    /\ call.fn = "upsert" /\ call.pc = "loop"
    /\ call.i < Len(call.vectors)
    /\ \E requestFails \in BOOLEAN :
          call' = IF requestFails
                  THEN [call EXCEPT !.pc = "raised"]
                  ELSE [call EXCEPT
                          !.upserts = Append(@, Slice(call.vectors, call.i,
                                                      call.i + BatchSize)),
                          !.i = @ + BatchSize]
    /\ UNCHANGED <<provider, kind, store, file, remote, maxResults,
                   threshold, last, app, http, threads>>

\* The range is exhausted: add_documents returns.
UpsertReturn ==
    /\ call.fn = "upsert" /\ call.pc = "loop"
    /\ call.i >= Len(call.vectors)
    /\ call' = [call EXCEPT !.pc = "done"]
    /\ UNCHANGED <<provider, kind, store, file, remote, maxResults,
                   threshold, last, app, http, threads>>

UpsertNext == BuildVectors \/ UpsertBatch \/ UpsertReturn

\* The thread that runs add_documents keeps running.
UpsertSpec == UpsertInit /\ [][UpsertNext]_vars /\ WF_vars(UpsertNext)

\* ------------------------------------------------- concurrent reindexing

\* Two POST /api/reindex requests are handled by two threads of the server
\* on one RAGSystem.  A thread may be switched out between any two of the
\* steps of add_documents: extending the chunk list, reading
\* self.embeddings, assigning the new matrix, opening the snapshot file and
\* dumping the store into it.

\* A request thread: where it is, the batch it adds, the matrix it read,
\* and whether the matrix had changed when it assigned.
Waiting ==
    [pc |-> "start", chunks |-> <<>>, rows |-> <<>>, seen |-> NoEmbeddings,
     stale |-> FALSE]

\* The store the requests find: empty, or holding a.txt from an earlier
\* index call under the local model.
Indexed ==
    AddDocuments(EmptyStore, NoFile, LoadDocuments(<<Doc("a.txt", <<"t1">>)>>),
                 EncodeRows("sentence_transformers", <<"t1">>), "ok")

RaceInit ==
    /\ provider = "sentence_transformers"
    /\ kind = "local"
    /\ \/ store = EmptyStore /\ file = NoFile
       \/ store = Indexed.store /\ file = Indexed.file
    /\ remote = {}
    /\ maxResults = DefaultMaxResults
    /\ threshold = DefaultThreshold
    /\ last = Idle
    /\ app = NoApp
    /\ http = NoRequest
    /\ call = NoCall
    /\ threads = <<Waiting, Waiting>>

\* A slip: the new matrix is built on the matrix the store holds at the
\* assignment, not on the one read before.
StackedOnCurrent(seen, rows) ==
    IF store.embeddings.none THEN [none |-> FALSE, rows |-> rows]
    ELSE [none |-> FALSE, rows |-> store.embeddings.rows \o rows]

\* The matrix add_documents assigns: the batch itself when it read None,
\* else np.vstack of the matrix it read and the batch.
Stacked(seen, rows) ==
    IF seen.none THEN [none |-> FALSE, rows |-> rows]
    ELSE [none |-> FALSE, rows |-> seen.rows \o rows]

\* index_documents(force_reindex=True) up to the call of add_documents:
\* the directory is loaded and its chunks are embedded by the local model.
StartReindex(t) ==
    /\ threads[t].pc = "start"
    /\ \E dir \in DistinctDirs :
          /\ ~NoDocuments(LoadDocuments(dir))
          /\ threads' = [threads EXCEPT
                ![t] = [@ EXCEPT
                    !.pc = "extend",
                    !.chunks = LoadDocuments(dir),
                    !.rows = EncodeRows(provider,
                                        ContentsOf(LoadDocuments(dir)))]]
    /\ UNCHANGED <<provider, kind, store, file, remote, maxResults,
                   threshold, last, app, http, call>>

\* self.chunks.extend(chunks)
ExtendChunks(t) ==
    /\ threads[t].pc = "extend"
    /\ store' = [store EXCEPT !.chunks = @ \o threads[t].chunks]
    /\ threads' = [threads EXCEPT ![t] = [@ EXCEPT !.pc = "read"]]
    /\ UNCHANGED <<provider, kind, file, remote, maxResults, threshold, last,
                   app, http, call>>

\* self.embeddings is read (for the test against None and for np.vstack).
ReadEmbeddings(t) ==
    /\ threads[t].pc = "read"
    /\ threads' = [threads EXCEPT
          ![t] = [@ EXCEPT !.pc = "assign", !.seen = store.embeddings]]
    /\ UNCHANGED <<provider, kind, store, file, remote, maxResults,
                   threshold, last, app, http, call>>

\* self.embeddings = ...
AssignEmbeddings(t) ==
    /\ threads[t].pc = "assign"
    /\ store' = [store EXCEPT
          !.embeddings = Stacked(threads[t].seen, threads[t].rows)]
    /\ threads' = [threads EXCEPT
          ![t] = [@ EXCEPT !.pc = "open",
                           !.stale = (store.embeddings # threads[t].seen)]]
    /\ UNCHANGED <<provider, kind, file, remote, maxResults, threshold, last,
                   app, http, call>>

\* _save_cache: open(cache_file, "wb") truncates the file.
OpenCache(t) ==
    /\ threads[t].pc = "open"
    /\ file' = CorruptFile
    /\ threads' = [threads EXCEPT ![t] = [@ EXCEPT !.pc = "dump"]]
    /\ UNCHANGED <<provider, kind, store, remote, maxResults, threshold,
                   last, app, http, call>>

\* _save_cache: pickle.dump of the chunk list and the matrix as they are
\* now; add_documents and the request return.
DumpCache(t) ==
    /\ threads[t].pc = "dump"
    /\ file' = SaveCache(store, file, "ok")
    /\ threads' = [threads EXCEPT ![t] = [@ EXCEPT !.pc = "done"]]
    /\ UNCHANGED <<provider, kind, store, remote, maxResults, threshold,
                   last, app, http, call>>

RaceNext ==
    \E t \in 1..2 :
        \/ StartReindex(t)
        \/ ExtendChunks(t)
        \/ ReadEmbeddings(t)
        \/ AssignEmbeddings(t)
        \/ OpenCache(t)
        \/ DumpCache(t)

RaceSpec == RaceInit /\ [][RaceNext]_vars

\* ------------------------------------------- a search during add_documents

\* One POST /api/reindex request and one POST /llmtrigger request are
\* handled by two threads on one RAGSystem with the local store.  The
\* search may be switched out between its test of the store, its read of
\* self.embeddings and each read of self.chunks in its loop.

\* The thread that searches for the embedded question q: where it is, the
\* similarities and top indices it computed, its position in the loop and
\* the results so far.
Searching(q) ==
    [pc |-> "check", q |-> q, sims |-> <<>>, top |-> <<>>, pos |-> 1,
     results |-> <<>>]

\* The store of Indexed after a later add_documents call that failed in
\* np.vstack: the process was started with OpenAI as the provider and
\* c.txt was added to the matrix of the local model; the chunk list was
\* extended, the matrix was not.
Misaligned ==
    AddDocuments(Indexed.store, Indexed.file,
                 LoadDocuments(<<Doc("c.txt", <<"t2">>)>>),
                 EncodeRows("openai", <<"t2">>), "ok")

\* The local model is the provider (from the start, or since OpenAI failed
\* once); thread 1 is about to reindex and thread 2 to search.
SearchRaceInit ==
    /\ provider = "sentence_transformers"
    /\ kind = "local"
    /\ \/ store = EmptyStore /\ file = NoFile
       \/ store = Indexed.store /\ file = Indexed.file
       \/ store = Misaligned.store /\ file = Misaligned.file
    /\ remote = {}
    /\ maxResults = DefaultMaxResults
    /\ threshold = DefaultThreshold
    /\ last = Idle
    /\ app = NoApp
    /\ http = NoRequest
    /\ call = NoCall
    /\ \E question \in Questions \cup {"t2"} :
          threads = <<Waiting, Searching(EncodeRow(provider, question))>>

\* "if self.embeddings is None or len(self.chunks) == 0: return []"
SearchCheck(t) ==
    /\ threads[t].pc = "check"
    /\ threads' = [threads EXCEPT
          ![t] = [@ EXCEPT
              !.pc = IF store.embeddings.none \/ Len(store.chunks) = 0
                     THEN "returned" ELSE "cosine"]]
    /\ UNCHANGED <<provider, kind, store, file, remote, maxResults,
                   threshold, last, app, http, call>>

\* self.embeddings is read: the similarities to its rows and the top
\* indices, for one outcome of the argsort.
SearchCosine(t) ==
    /\ threads[t].pc = "cosine"
    /\ \E order \in ArgSorts(Similarities(threads[t].q,
                                           store.embeddings.rows)) :
          threads' = [threads EXCEPT
              ![t] = [@ EXCEPT
                  !.pc = "loop",
                  !.sims = Similarities(threads[t].q, store.embeddings.rows),
                  !.top = TopIndices(order, maxResults)]]
    /\ UNCHANGED <<provider, kind, store, file, remote, maxResults,
                   threshold, last, app, http, call>>

\* One iteration of the loop over top_indices: self.chunks[idx] is read
\* (IndexError when the list is shorter) for a similarity above the
\* threshold; after the last one search returns.
SearchLoop(t) ==
    /\ threads[t].pc = "loop"
    /\ LET th == threads[t]
           idx == th.top[th.pos]
       IN  threads' = [threads EXCEPT
             ![t] = IF th.pos > Len(th.top)
                    THEN [th EXCEPT !.pc = "returned"]
                    ELSE IF ~AboveThreshold(th.sims[idx], threshold)
                    THEN [th EXCEPT !.pos = @ + 1]
                    ELSE IF idx > Len(store.chunks)
                    THEN [th EXCEPT !.pc = "indexerror"]
                    ELSE [th EXCEPT
                            !.pos = @ + 1,
                            !.results = Append(@,
                                [chunk |-> store.chunks[idx],
                                 similarity |-> th.sims[idx]])]]
    /\ UNCHANGED <<provider, kind, store, file, remote, maxResults,
                   threshold, last, app, http, call>>

SearchRaceNext ==
    \E t \in 1..2 :
        \/ StartReindex(t)
        \/ ExtendChunks(t)
        \/ ReadEmbeddings(t)
        \/ AssignEmbeddings(t)
        \/ OpenCache(t)
        \/ DumpCache(t)
        \/ SearchCheck(t)
        \/ SearchCosine(t)
        \/ SearchLoop(t)

SearchRaceSpec == SearchRaceInit /\ [][SearchRaceNext]_vars

\* ---------------------------------------------------------------- claims

Rows == store.embeddings.rows
\* The similarity the last query's vector has to row n of the local store.
SimOfRow(n) == CosineSimilarity(last.q, Rows[n])
LocalQuery == last.op = "query" /\ kind = "local" /\ last.searched
RangeOf(s) == {s[i] : i \in 1..Len(s)}

\* C1: in every reachable state the local store holds as many chunks as
\* embedding rows, and chunk i is the chunk that was added with row i (row i
\* is the embedding of the content of chunk i).
C1_ChunksEmbeddingsAligned ==
    IF store.embeddings.none
    THEN store.chunks = <<>>
    ELSE /\ Len(store.chunks) = Len(Rows)
         /\ \A i \in 1..Len(Rows) :
               \E p \in Providers : Rows[i] = EncodeRow(p, store.chunks[i].content)

\* C2: no result of a search, local or hosted, has a similarity less than
\* or equal to the configured threshold.
C2_ResultsAboveThreshold ==
    last.op = "query" =>
        \A i \in 1..Len(last.results) : last.results[i].similarity > threshold

\* A local search under the default max_results that left out a row whose
\* similarity equals the threshold and returned another.
C2_Witness ==
    /\ LocalQuery
    /\ maxResults = DefaultMaxResults
    /\ last.results # <<>>
    /\ \E n \in 1..Len(Rows) : SimOfRow(n) = threshold /\ n \notin RangeOf(last.kept)

\* C3: the results of a local search are in non-increasing order of
\* similarity, and no row that was left out has a similarity above the
\* threshold that is strictly higher than that of a returned result.
C3_OrderedTopK ==
    LocalQuery =>
        /\ \A i, j \in 1..Len(last.results) :
              i < j => last.results[i].similarity >= last.results[j].similarity
        /\ \A n \in 1..Len(Rows) :
              (n \notin RangeOf(last.kept) /\ SimOfRow(n) > threshold) =>
                  \A j \in 1..Len(last.results) :
                      SimOfRow(n) <= last.results[j].similarity

\* A local search that returned two results of different similarity.
C3_Witness ==
    /\ LocalQuery
    /\ Len(last.results) >= 2
    /\ last.results[1].similarity > last.results[2].similarity

\* C4: a local search returns at most k results, for every k >= 0.
C4_AtMostK == LocalQuery => Len(last.results) <= maxResults

\* The case of C5: the query vector is a non-zero vector that add_documents
\* stored as a row, the threshold is below 1 and k >= 1.
C5_Case ==
    /\ LocalQuery
    /\ maxResults >= 1
    /\ threshold < Scale
    /\ Dot(last.q.xy, last.q.xy) # 0
    /\ \E n \in 1..Len(Rows) : Rows[n] = last.q

C6_IndexIsNoOp ==
    [][(/\ kind = "local"
        /\ Len(store.chunks) > 0
        /\ last'.op = "index"
        /\ ~last'.force)
       => (/\ store' = store
           /\ file' = file
           /\ ~last'.loaded /\ ~last'.encoded /\ ~last'.added
           /\ last'.outcome = "return")]_vars

\* An unforced index call on a local store that holds chunks has returned.
C6_Witness ==
    /\ last.op = "index"
    /\ ~last.force
    /\ last.skipped
    /\ kind = "local"
    /\ Len(store.chunks) > 0

\* C7: when the search of a query yields no result, query returns the
\* no-information response and the generator is not called.
C7_NoResultsNoGenerator ==
    (last.op = "query" /\ last.searched /\ last.results = <<>>) =>
        /\ last.outcome = "return"
        /\ last.value = NoContextResponse
        /\ ~last.generated

\* A query on a local store that holds rows, none of them above the threshold.
C7_Witness ==
    /\ LocalQuery
    /\ last.results = <<>>
    /\ Len(Rows) > 0
    /\ last.value = NoContextResponse

\* C8: query returns a string, whichever of its calls raised.
C8_QueryReturnsString ==
    last.op = "query" => (last.outcome = "return" /\ last.value \in QueryStrings)

\* A query whose vector search raised.
C8_Witness ==
    /\ last.op = "query"
    /\ last.raisedAt = "search"
    /\ last.value = ErrorResponse

\* C9: every index_documents call on a directory that yields no chunk raises
\* and adds nothing, whatever the store and the force flag.
C9_EmptyCorpusRaises ==
    [][(last'.op = "index" /\ last'.dirEmpty)
       => (/\ last'.outcome = "raise"
           /\ store' = store
           /\ remote' = remote)]_vars

\* C9, amended: an index_documents call on a directory that yields no chunk
\* adds nothing; it raises, except that an unforced call on a local store
\* that holds a chunk returns without having read the directory.
C9_EmptyCorpusRaisesUnlessIndexed ==
    [][(last'.op = "index" /\ last'.dirEmpty)
       => (/\ store' = store
           /\ remote' = remote
           /\ file' = file
           /\ ~last'.added
           /\ IF ~last'.force /\ kind = "local" /\ Len(store.chunks) > 0
              THEN last'.outcome = "return" /\ ~last'.loaded
              ELSE last'.outcome = "raise" /\ last'.loaded)]_vars

\* A forced index call on an empty directory has raised on a store that
\* holds chunks.
C9_Witness ==
    /\ last.op = "index"
    /\ last.force
    /\ last.dirEmpty
    /\ last.outcome = "raise"
    /\ Len(store.chunks) > 0

\* C10: when add_documents of the local store has returned, the snapshot
\* file holds the chunk list and the matrix of the store.
C10_PersistedOnReturn ==
    (last.op = "index" /\ kind = "local" /\ last.addReturned) =>
        file = Snapshot(store)

\* The dimension of the vectors a store holds differs from dimension d.
OtherDimension(d) ==
    \/ kind = "local" /\ ~store.embeddings.none /\ Rows # <<>> /\ MatDim(Rows) # d
    \/ kind = "hosted" /\ remote # {} /\ IndexDim # d

\* C11: the vectors of a store share one dimension, and an index or query
\* call whose embedding has another dimension than the stored vectors (the
\* provider was switched) raises a configuration error: the store is left as
\* it was and query does not return an answer string.
C11_ProviderSwitchDetected ==
    [][/\ \A i, j \in 1..Len(store'.embeddings.rows) :
             store'.embeddings.rows[i].dim = store'.embeddings.rows[j].dim
       /\ \A u, v \in remote' : u.values.dim = v.values.dim
       /\ (last'.op = "index" /\ last'.added
              /\ OtherDimension(EmbeddingDim(provider')))
          => (/\ last'.outcome = "raise"
              /\ store' = store
              /\ remote' = remote)
       /\ (last'.op = "query" /\ last'.raisedAt # "encode"
              /\ OtherDimension(last'.q.dim))
          => last'.outcome = "raise"]_vars

\* C12: no two chunks a store holds have the same chunk_id: no two positions
\* of the local chunk list, and no two vectors of the remote index.
C12_ChunkIdUnique ==
    /\ \A i, j \in 1..Len(store.chunks) :
          store.chunks[i].chunk_id = store.chunks[j].chunk_id => i = j
    /\ \A u, v \in remote : u.id = v.id => u = v

\* C13: of two results of a local search that have the same similarity, the
\* chunk that was inserted earlier (the lower position of the chunk list)
\* comes first (stated for k >= 1, where the search takes the top k).
C13_TiesByInsertionOrder ==
    (LocalQuery /\ maxResults >= 1) =>
        \A i, j \in 1..Len(last.kept) :
            (i < j /\ SimOfRow(last.kept[i]) = SimOfRow(last.kept[j]))
                => last.kept[i] < last.kept[j]

\* The bodies C14 is about: text that is not JSON, a JSON value that is not
\* an object, a message that is missing, not a string, empty or whitespace
\* only, or longer than the limit once stripped.
Malformed(body) ==
    \/ body.shape \in {"array", "null", "malformed"}
    \/ body.field \in {"absent", "number", "null"}
    \/ Length(Strip(body.message)) = 0
    \/ Length(Strip(body.message)) > MaxMessageLen

\* C14: POST /llmtrigger answers every malformed, empty or too-long input
\* with status 400 and an error field, without running the RAG query.
C14_MalformedIs400 ==
    (http.route = "llmtrigger" /\ Malformed(http.body)) =>
        /\ http.status = 400
        /\ http.error # ""
        /\ ~http.ran

\* C15: when the embedding backend, the vector search or the generator
\* raises while a valid POST /llmtrigger is handled, the response has status
\* 500 and carries no text of the exception.
C15_InternalFailureIs500 ==
    (http.route = "llmtrigger" /\ http.ran /\ last.op = "query"
        /\ last.raisedAt # "none")
    => (http.status = 500 /\ http.detail = "")

\* C16: a failure of the hosted store never makes startup fail: create_app
\* does not raise on issues of the hosted store alone, and a system that was
\* started with the hosted store selected but unusable runs the local store.
C16_HostedFailureDegrades ==
    /\ (app.phase = "failed" /\ app.issues # {})
          => ~(app.issues \subseteq HostedIssues)
    /\ (app.phase \in {"constructed", "serving"} /\ app.hostedFailed)
          => kind = "local"

\* C18: an application whose Gemini credential is missing, or whose data
\* directory is missing or holds no .txt or .pdf file, is never constructed
\* and never answers a request: create_app has raised.
C18_ConfigErrorsAreFatal ==
    (app.phase # "down" /\ (~app.gemini \/ ~app.dataFiles)) =>
        /\ app.phase = "failed"
        /\ app.issues \cap {"gemini", "data"} # {}
        /\ http = NoRequest
        /\ last = Idle

\* create_app has raised on a data directory without files, the Gemini
\* credential being there.
C18_Witness ==
    /\ app.phase = "failed"
    /\ app.gemini
    /\ ~app.dataFiles
    /\ app.issues = {"data"}

\* The encode calls C17 is about: OpenAI is the provider, its request fails
\* and the local model can be loaded and used.
C17_Case ==
    /\ call.fn = "encode" /\ call.done
    /\ call.openaiFails /\ ~call.stFails
    /\ call.provider = "sentence_transformers"

\* C17: when the OpenAI request fails and the local model can be loaded,
\* encode returns without raising the local model's embeddings of the same
\* texts, one row per text and in their order.
C17_FallbackIsTransparent ==
    [][(call.fn = "encode" /\ ~call.done /\ call.provider = "openai"
          /\ call.openaiFails /\ ~call.stFails /\ call'.done)
       => (/\ ~call'.raised
           /\ Len(call'.rows) = Len(call.texts)
           /\ \A i \in 1..Len(call.texts) :
                 call'.rows[i]
                     = EncodeRow("sentence_transformers", call.texts[i]))]_vars

\* encode has fallen back on a list of two texts.
C17_Witness ==
    /\ C17_Case
    /\ ~call.raised
    /\ Len(call.texts) >= 2
    /\ Len(call.rows) = Len(call.texts)

\* The file of document i of the directory is readable in all its pages.
ReadableFile(dir, i) ==
    \A j \in 1..Len(dir) : dir[j].source = dir[i].source => dir[j].readable

\* C19: load_documents returns the chunks of every readable file of the
\* directory, whatever other files of it are unreadable or unparsable.
C19_ReadableDocumentsLoaded ==
    (call.fn = "load" /\ call.done) =>
        \A i \in 1..Len(call.dir) :
            ReadableFile(call.dir, i) =>
                RangeOf(ChunkDocument(call.dir[i])) \subseteq RangeOf(call.chunks)

\* Both reindex requests have returned.
BothDone == threads # NoThreads /\ \A t \in 1..2 : threads[t].pc = "done"

\* C20: two add_documents calls that run concurrently on one local store
\* race: whenever one of them assigned a matrix built on a matrix that the
\* other had replaced in between, a batch of rows is lost and the chunk list
\* is longer than the matrix once both have returned.
C20_ConcurrentAddsRace ==
    (BothDone /\ \E t \in 1..2 : threads[t].stale) =>
        /\ Len(store.embeddings.rows) < Len(store.chunks)
        /\ \E t \in 1..2 :
              Len(store.embeddings.rows)
                  <= Len(store.chunks) - Len(threads[t].rows)

\* Both requests have returned, one of them having assigned a matrix built
\* on a stale read.
C20_Witness ==
    /\ BothDone
    /\ \E t \in 1..2 : threads[t].stale
    /\ Len(store.embeddings.rows) < Len(store.chunks)


\* C21: only indexing mutates the local store.  Once the application
\* serves, no request (POST /llmtrigger with the query it runs, GET /health,
\* GET /api/stats, GET /api/test) changes the chunk list, the embedding
\* matrix or the snapshot file; the file is read at construction only, so a
\* store that differs from its file stays as it is.
C21_OnlyIndexingMutates ==
    [][app.phase = "serving" => store' = store /\ file' = file]_vars

\* C21's case: a query was answered over a local store that holds chunks
\* its snapshot file does not.
C21_Witness ==
    /\ app.phase = "serving"
    /\ kind = "local"
    /\ http.route = "llmtrigger"
    /\ http.ran
    /\ last.searched
    /\ Len(store.chunks) > 0
    /\ store # LoadCache(file)


\* s is an initial segment of t.
IsPrefix(s, t) == Len(s) <= Len(t) /\ SubSeq(t, 1, Len(s)) = s

C23_HostedAlwaysReindexes ==
    [][(kind = "hosted" /\ last'.op = "index")
          => /\ ~last'.skipped
             /\ last'.loaded
             /\ (last'.raisedAt = "none"
                    => last'.encoded /\ last'.added /\ last'.addReturned)
             /\ (last'.idsHeld => Ids(remote') = Ids(remote))
             /\ Cardinality(remote') = Cardinality(Ids(remote'))]_vars

\* C23's case: an unforced call on a remote index that held the
\* directory's ids ran through to the upsert.
C23_Witness ==
    /\ kind = "hosted"
    /\ last.op = "index"
    /\ ~last.force
    /\ last.idsHeld
    /\ last.addReturned
    /\ remote # {}


\* C24: a constructed EmbeddingManager has OpenAI as its provider exactly
\* when the key is configured, the openai package can be imported and its
\* client can be built; in every other case the provider is the local
\* SentenceTransformers model; and embedding_dim is the length of the
\* vectors the provider produces.
C24_ProviderSelection ==
    (call.fn = "construct" /\ call.done /\ ~call.raised)
        => /\ (call.provider = "openai")
                 <=> (call.keyConfigured /\ call.importOk /\ call.initOk)
           /\ (call.provider # "openai"
                 => call.provider = "sentence_transformers")
           /\ call.dim = EncodeRow(call.provider, "t1").dim

\* C24's case: the key is configured and the package is there, the client
\* cannot be built, and the manager is constructed on the local model.
C24_Witness ==
    /\ call.fn = "construct"
    /\ call.done
    /\ ~call.raised
    /\ call.keyConfigured
    /\ call.importOk
    /\ ~call.initOk
    /\ call.provider = "sentence_transformers"
    /\ call.dim = STDim


\* C25: when the vector store's search raised an exception during query
\* (max_results at least 1), with the local store or with the hosted one,
\* the string query returns is the error string with the exception's text,
\* never the canned no-information answer.
C25_SearchErrorDescribed ==
    (last.op = "query" /\ last.searchFailed /\ maxResults >= 1)
        => /\ last.value = ErrorResponse
           /\ last.detail # ""
           /\ last.value # NoContextResponse


\* C26: when the search yields results and the generator returns without
\* raising, query returns the generator's trimmed text or, for empty
\* output, the canned apology, and never the empty string, also when the
\* generator's output is whitespace only.
C26_NeverEmptyString ==
    (last.op = "query" /\ last.generated /\ last.raisedAt = "none")
        => /\ last.value \in {Answer, Apology}
           /\ last.value # ""


\* C27: PineconeVectorStore.add_documents terminates for every number n of
\* pairs, by returning or by an exception of index.upsert, and when it
\* returns it has upserted every pair exactly once, in input order, in
\* ceil(n / 50) batches of 1 to 50 vectors (none for n = 0).
C27_BatchedUpsert ==
    /\ [](call.pc = "done"
            => /\ Concat(call.upserts) = [k \in 1..call.n |-> k]
               /\ \A b \in 1..Len(call.upserts) :
                     /\ Len(call.upserts[b]) >= 1
                     /\ Len(call.upserts[b]) <= BatchSize
               /\ Len(call.upserts) = (call.n + BatchSize - 1) \div BatchSize)
    /\ <>(call.pc \in {"done", "raised"})

\* C27's case: a call with more pairs than two batches hold returned after
\* three upserts.
C27_Witness ==
    /\ call.fn = "upsert"
    /\ call.pc = "done"
    /\ call.n > 2 * BatchSize
    /\ Len(call.upserts) = 3


\* C28: snapshot round trip.  A LocalVectorStore constructed (at a restart)
\* after an add_documents call returned holds exactly the chunk list and
\* the embedding matrix the earlier store held when the call returned.
C28_SnapshotRoundTrip ==
    [][(/\ kind = "local"
        /\ last.op = "index"
        /\ last.addReturned
        /\ last'.op = "restart")
          => store' = store]_vars


\* The store the service runs on holds nothing.
StoreIsEmpty ==
    IF kind = "local" THEN Len(store.chunks) = 0 ELSE remote = {}

\* A POST /llmtrigger request was answered by query over an empty store.
AnsweredOnEmptyStore ==
    /\ app.phase = "serving"
    /\ StoreIsEmpty
    /\ http.route = "llmtrigger"
    /\ http.ran

\* C29 as stated: construction never fails once index_documents has been
\* called, whatever it raised, and with an empty store every later query
\* returns the canned no-information response.
C29_StartupSwallowsIndexing ==
    /\ (app.phase = "failed" => last.op # "index")
    /\ (AnsweredOnEmptyStore => http.message = NoContextResponse)

\* C29, amended: construction never fails once index_documents has been
\* called, whatever it raised; with an empty store every later query whose
\* question is embedded returns the canned no-information response, and a
\* query whose embedding call raises returns the error string.
C29_StartupSwallowsIndexingUnlessEncodeFails ==
    /\ (app.phase = "failed" => last.op # "index")
    /\ (AnsweredOnEmptyStore
          => IF last.raisedAt = "encode"
             THEN http.message = ErrorResponse
             ELSE http.message = NoContextResponse)

\* C29's case: the index call at startup raised, the service started on an
\* empty store and answered a query with the no-information response.
C29_Witness ==
    /\ AnsweredOnEmptyStore
    /\ app.indexRaised
    /\ last.searched
    /\ http.message = NoContextResponse


\* C30: a search that runs concurrently with one add_documents call on the
\* same local store, at any interleaving point, never indexes past the end
\* of the chunk list and never returns a chunk with a similarity that was
\* computed from another chunk's embedding.
C30_SearchDuringAdd ==
    \A t \in 1..Len(threads) :
        threads[t].pc \in {"check", "cosine", "loop", "returned", "indexerror"}
            => /\ threads[t].pc # "indexerror"
               /\ \A j \in 1..Len(threads[t].results) :
                     threads[t].results[j].similarity
                         = CosineSimilarity(
                               threads[t].q,
                               EncodeRow(provider,
                                         threads[t].results[j].chunk.content))

====
